---------------------------- MODULE Spec2Model ----------------------------
(***************************************************************************)
(* Model of CommandLineOptions (src/src/argumentparser.cpp): the parse     *)
(* loop of the constructor, try_processing, try_set_option and try_assign. *)
(* A std::string / std::string_view is a sequence of one-character         *)
(* strings; an iterator into `arguments` is its 0-based index.             *)
(***************************************************************************)
EXTENDS Integers, Sequences, FiniteSets, TLC

VARIABLES
    arguments,          \* std::vector<std::string> of the non-executable arguments
    checked,            \* the build links a checked standard library (debug iterators/assertions)
    garbage,            \* garbage[k]: the byte stored just before the characters of arguments[k]
    it,                 \* the argument iterator, as a 0-based index
    pc,                 \* position in the constructor: loop, advance, increment, done, exit
    options,            \* the eight public fields of CommandLineOptions
    error,              \* which print_then_exit ended the process ("None" while running)
    equals_sign_index,  \* equals_sign_index of the current iteration
    option_value,       \* option_value of the current iteration
    roles               \* history: roles[k] lists the roles in which arguments[k] was consumed

vars == <<arguments, checked, garbage, it, pc, options, error,
          equals_sign_index, option_value, roles>>

(***************************************************************************)
(* The calls of print_then_exit, by the kind of error they report:         *)
(*   "MalformedToken"         "Expected -[option] or --[option], got ..."  *)
(*   "AmbiguousClusterValue"  "Unrecognized option ... in -..." with Help  *)
(*   "InvalidClusterMember"   "Non-boolean argument ... in ..."            *)
(*   "UnrecognizedOption"     "Unrecognized option ..." (named or cluster) *)
(*   "MissingValue"           "Missing value for option ..."               *)
(*   "TypeMismatch"           "Unexpected argument ... for boolean option" *)
(*                            "Expected integer argument for int option"   *)
(*   "IntegerOverflow"        "Argument ... overflows for int option ..."  *)
(* "Abort" is the termination by a checked standard library when an        *)
(* operation is used outside its precondition.                             *)
(***************************************************************************)

(***************************************************************************)
(* Bounds of the model.                                                    *)
(***************************************************************************)
MaxArgs == 2

MaxRoles == 2

(***************************************************************************)
(* Program constants.                                                      *)
(***************************************************************************)
\* std::numeric_limits<int>::max()
INT_MAX == 2147483647

\* std::string::npos, "the largest possible size_t value"; every index of a
\* modelled string is far below it.
npos == 2147483647

Digits == <<"0", "1", "2", "3", "4", "5", "6", "7", "8", "9">>

IsDigit(c) == \E k \in 1..10 : Digits[k] = c

\* c - '0' for a digit character c
DigitValue(c) == (CHOOSE k \in 1..10 : Digits[k] = c) - 1

Min(a, b) == IF a < b THEN a ELSE b

(***************************************************************************)
(* std::string_view operations used by the parser.                         *)
(***************************************************************************)
\* s.find_first_not_of('-')
find_first_not_of_dash(s) ==
    IF \A k \in 1..Len(s) : s[k] = "-"
    THEN npos
    ELSE (CHOOSE k \in 1..Len(s) : s[k] # "-" /\ \A j \in 1..(k - 1) : s[j] = "-") - 1

\* s.find(c)
find(s, c) ==
    IF \A k \in 1..Len(s) : s[k] # c
    THEN npos
    ELSE (CHOOSE k \in 1..Len(s) : s[k] = c /\ \A j \in 1..(k - 1) : s[j] # c) - 1

\* s.substr(pos, n) and s.substr(pos)
substr(s, pos, n) == SubSeq(s, pos + 1, Min(pos + n, Len(s)))

substr_from(s, pos) == SubSeq(s, pos + 1, Len(s))

\* s.remove_prefix(n) for n <= s.size()
remove_prefix(s, n) == SubSeq(s, n + 1, Len(s))

(***************************************************************************)
(* The option fields and their defaults (argumentparser.h).                *)
(***************************************************************************)
\* The defaults with input_file given the default of image_file
DefaultOptionsSameFile ==
    [nthreads |-> 0, spp |-> 0, seed |-> 0,
     image_file |-> <<"i", "m", "a", "g", "e", ".", "p", "p", "m">>,
     input_file |-> <<"i", "m", "a", "g", "e", ".", "p", "p", "m">>,
     quiet |-> FALSE, log_util |-> FALSE, partial |-> FALSE]

DefaultOptions ==
    [nthreads |-> 0, spp |-> 0, seed |-> 0,
     image_file |-> <<"i", "m", "a", "g", "e", ".", "p", "p", "m">>,
     input_file |-> <<"s", "c", "e", "n", "e", ".", "t", "x", "t">>,
     quiet |-> FALSE, log_util |-> FALSE, partial |-> FALSE]

\* The calls of try_processing with `input` bound to the field image_file
RegistryInputSetsImageFile ==
    << [field |-> "nthreads",   name |-> <<"n", "t", "h", "r", "e", "a", "d", "s">>,  kind |-> "Int"],
       [field |-> "nthreads",   name |-> <<"n">>,         kind |-> "Int"],
       [field |-> "spp",        name |-> <<"s", "p", "p">>,       kind |-> "Int"],
       [field |-> "seed",       name |-> <<"s", "e", "e", "d">>,      kind |-> "Int"],
       [field |-> "seed",       name |-> <<"s">>,         kind |-> "Int"],
       [field |-> "image_file", name |-> <<"i", "m", "a", "g", "e", "f", "i", "l", "e">>,
           kind |-> "String"],
       [field |-> "image_file", name |-> <<"i", "n", "p", "u", "t">>,     kind |-> "String"],
       [field |-> "quiet",      name |-> <<"q", "u", "i", "e", "t">>,     kind |-> "Bool"],
       [field |-> "quiet",      name |-> <<"q">>,         kind |-> "Bool"],
       [field |-> "log_util",   name |-> <<"l", "o", "g", "u", "t", "i", "l">>,   kind |-> "Bool"],
       [field |-> "log_util",   name |-> <<"l">>,         kind |-> "Bool"],
       [field |-> "partial",    name |-> <<"p", "a", "r", "t", "i", "a", "l">>,   kind |-> "Bool"],
       [field |-> "partial",    name |-> <<"p">>,         kind |-> "Bool"] >>

\* The calls of try_processing, in order: field, option name, type T.
Registry ==
    << [field |-> "nthreads",   name |-> <<"n", "t", "h", "r", "e", "a", "d", "s">>,  kind |-> "Int"],
       [field |-> "nthreads",   name |-> <<"n">>,         kind |-> "Int"],
       [field |-> "spp",        name |-> <<"s", "p", "p">>,       kind |-> "Int"],
       [field |-> "seed",       name |-> <<"s", "e", "e", "d">>,      kind |-> "Int"],
       [field |-> "seed",       name |-> <<"s">>,         kind |-> "Int"],
       [field |-> "image_file", name |-> <<"i", "m", "a", "g", "e", "f", "i", "l", "e">>,
           kind |-> "String"],
       [field |-> "input_file", name |-> <<"i", "n", "p", "u", "t">>,     kind |-> "String"],
       [field |-> "quiet",      name |-> <<"q", "u", "i", "e", "t">>,     kind |-> "Bool"],
       [field |-> "quiet",      name |-> <<"q">>,         kind |-> "Bool"],
       [field |-> "log_util",   name |-> <<"l", "o", "g", "u", "t", "i", "l">>,   kind |-> "Bool"],
       [field |-> "log_util",   name |-> <<"l">>,         kind |-> "Bool"],
       [field |-> "partial",    name |-> <<"p", "a", "r", "t", "i", "a", "l">>,   kind |-> "Bool"],
       [field |-> "partial",    name |-> <<"p">>,         kind |-> "Bool"] >>

(***************************************************************************)
(* try_assign: the result is the error raised ("None" if none), the value  *)
(* of `option` when the function returns or exits, whether `--it` ran, and *)
(* (history) whether the text of `argument` was converted into the value.  *)
(***************************************************************************)
try_assign_string(option, argument) ==
    [err |-> "None", val |-> argument, regress |-> FALSE, consumed |-> TRUE]

\* try_assign for bool that forgets the literal "1"
try_assign_bool_without_one(option, argument) ==
    IF argument = <<>> \/ argument = <<"t", "r", "u", "e">>
    THEN [err |-> "None", val |-> TRUE, regress |-> FALSE, consumed |-> argument # <<>>]
    ELSE IF argument = <<"0">> \/ argument = <<"f", "a", "l", "s", "e">>
    THEN [err |-> "None", val |-> FALSE, regress |-> FALSE, consumed |-> TRUE]
    ELSE IF argument[1] # "-"
    THEN [err |-> "TypeMismatch", val |-> option, regress |-> FALSE, consumed |-> FALSE]
    ELSE [err |-> "None", val |-> TRUE, regress |-> TRUE, consumed |-> FALSE]

\* try_assign for bool without the `--it` of its last branch
try_assign_bool_no_regress(option, argument) ==
    IF argument = <<>> \/ argument = <<"1">> \/ argument = <<"t", "r", "u", "e">>
    THEN [err |-> "None", val |-> TRUE, regress |-> FALSE, consumed |-> argument # <<>>]
    ELSE IF argument = <<"0">> \/ argument = <<"f", "a", "l", "s", "e">>
    THEN [err |-> "None", val |-> FALSE, regress |-> FALSE, consumed |-> TRUE]
    ELSE IF argument[1] # "-"
    THEN [err |-> "TypeMismatch", val |-> option, regress |-> FALSE, consumed |-> FALSE]
    ELSE [err |-> "None", val |-> TRUE, regress |-> FALSE, consumed |-> FALSE]

try_assign_bool(option, argument) ==
    IF argument = <<>> \/ argument = <<"1">> \/ argument = <<"t", "r", "u", "e">>
    THEN [err |-> "None", val |-> TRUE, regress |-> FALSE, consumed |-> argument # <<>>]
    ELSE IF argument = <<"0">> \/ argument = <<"f", "a", "l", "s", "e">>
    THEN [err |-> "None", val |-> FALSE, regress |-> FALSE, consumed |-> TRUE]
    ELSE IF argument[1] # "-"
    THEN [err |-> "TypeMismatch", val |-> option, regress |-> FALSE, consumed |-> FALSE]
    ELSE [err |-> "None", val |-> TRUE, regress |-> TRUE, consumed |-> FALSE]

\* int_loop with the overflow test written with <= instead of <
RECURSIVE int_loop_off_by_one(_, _, _)
int_loop_off_by_one(argument, k, option) ==
    IF k > Len(argument)
    THEN [err |-> "None", val |-> option, regress |-> FALSE, consumed |-> TRUE]
    ELSE IF ~IsDigit(argument[k])
    THEN [err |-> "TypeMismatch", val |-> option, regress |-> FALSE, consumed |-> FALSE]
    ELSE IF (INT_MAX - DigitValue(argument[k])) \div 10 <= option
    THEN [err |-> "IntegerOverflow", val |-> option, regress |-> FALSE, consumed |-> FALSE]
    ELSE int_loop_off_by_one(argument, k + 1, 10 * option + DigitValue(argument[k]))

\* One pass of `for (char c : argument)`, from character k on.
RECURSIVE int_loop(_, _, _)
int_loop(argument, k, option) ==
    IF k > Len(argument)
    THEN [err |-> "None", val |-> option, regress |-> FALSE, consumed |-> TRUE]
    ELSE IF ~IsDigit(argument[k])
    THEN [err |-> "TypeMismatch", val |-> option, regress |-> FALSE, consumed |-> FALSE]
    ELSE IF (INT_MAX - DigitValue(argument[k])) \div 10 < option
    THEN [err |-> "IntegerOverflow", val |-> option, regress |-> FALSE, consumed |-> FALSE]
    ELSE int_loop(argument, k + 1, 10 * option + DigitValue(argument[k]))

try_assign_int(option, argument) == int_loop(argument, 1, 0)

try_assign(kind, option, argument) ==
    CASE kind = "String" -> try_assign_string(option, argument)
      [] kind = "Bool"   -> try_assign_bool(option, argument)
      [] kind = "Int"    -> try_assign_int(option, argument)

(***************************************************************************)
(* try_set_option for one registry entry.  matched is the return value;    *)
(* err is the error raised, if any; opts the fields afterwards.            *)
(***************************************************************************)
NoMatch(opts) ==
    [matched |-> FALSE, err |-> "None", opts |-> opts, regress |-> FALSE, consumed |-> FALSE]

Raised(kind, opts) ==
    [matched |-> TRUE, err |-> kind, opts |-> opts, regress |-> FALSE, consumed |-> FALSE]

\* try_set_option without the test for a missing value
try_set_option_no_missing(opts, entry, curr_option_name, curr_option_value, bool_cluster) ==
    IF entry.name # curr_option_name
    THEN NoMatch(opts)
    ELSE IF bool_cluster /\ entry.kind # "Bool"
    THEN Raised("InvalidClusterMember", opts)
    ELSE LET r == try_assign(entry.kind, opts[entry.field], curr_option_value)
         IN  [matched |-> TRUE, err |-> r.err,
              opts |-> [opts EXCEPT ![entry.field] = r.val],
              regress |-> r.regress, consumed |-> r.consumed]

\* try_set_option with the test for a missing value before the test of the cluster
try_set_option_missing_first(opts, entry, curr_option_name, curr_option_value, bool_cluster) ==
    IF entry.name # curr_option_name
    THEN NoMatch(opts)
    ELSE IF entry.kind # "Bool" /\ curr_option_value = <<>>
    THEN Raised("MissingValue", opts)
    ELSE IF bool_cluster /\ entry.kind # "Bool"
    THEN Raised("InvalidClusterMember", opts)
    ELSE LET r == try_assign(entry.kind, opts[entry.field], curr_option_value)
         IN  [matched |-> TRUE, err |-> r.err,
              opts |-> [opts EXCEPT ![entry.field] = r.val],
              regress |-> r.regress, consumed |-> r.consumed]

try_set_option(opts, entry, curr_option_name, curr_option_value, bool_cluster) ==
    IF entry.name # curr_option_name
    THEN NoMatch(opts)
    ELSE IF bool_cluster /\ entry.kind # "Bool"
    THEN Raised("InvalidClusterMember", opts)
    ELSE IF entry.kind # "Bool" /\ curr_option_value = <<>>
    THEN Raised("MissingValue", opts)
    ELSE LET r == try_assign(entry.kind, opts[entry.field], curr_option_value)
         IN  [matched |-> TRUE, err |-> r.err,
              opts |-> [opts EXCEPT ![entry.field] = r.val],
              regress |-> r.regress, consumed |-> r.consumed]

\* The || chain of try_processing, from the k-th call on.
RECURSIVE try_processing_from(_, _, _, _, _)
try_processing_from(k, opts, option_name, value, bool_cluster) ==
    IF k > Len(Registry)
    THEN NoMatch(opts)
    ELSE LET r == try_set_option(opts, Registry[k], option_name, value, bool_cluster)
         IN  IF r.matched THEN r
             ELSE try_processing_from(k + 1, opts, option_name, value, bool_cluster)

try_processing(opts, option_name, value, bool_cluster) ==
    try_processing_from(1, opts, option_name, value, bool_cluster)

\* `for (char option_name : curr_argument)` of the cluster case, from character k on.
RECURSIVE cluster_loop(_, _, _)
cluster_loop(opts, curr_argument, k) ==
    IF k > Len(curr_argument)
    THEN [err |-> "None", opts |-> opts]
    ELSE LET r == try_processing(opts, <<curr_argument[k]>>, <<>>, TRUE)
         IN  IF ~r.matched THEN [err |-> "UnrecognizedOption", opts |-> r.opts]
             ELSE IF r.err # "None" THEN [err |-> r.err, opts |-> r.opts]
             ELSE cluster_loop(r.opts, curr_argument, k + 1)

(***************************************************************************)
(* One iteration of the constructor's for loop on arguments[i + 1].        *)
(***************************************************************************)
\* num_prefix_dashes of a token
num_prefix_dashes(token) == find_first_not_of_dash(token)

\* remove_prefix(npos) on a token made of dashes only (or empty) is outside the
\* precondition of remove_prefix: a checked library aborts.
RemovePrefixOutOfRange(token) == num_prefix_dashes(token) = npos

\* curr_argument after remove_prefix.  Out of range, an unchecked library
\* computes data() - 1 and size() + 1: the view starts at the byte g stored
\* before the characters of the token.
curr_argument(token, g) ==
    IF RemovePrefixOutOfRange(token)
    THEN <<g>> \o token
    ELSE remove_prefix(token, num_prefix_dashes(token))

\* The three cases of the if at the head of the loop body.
Shape(token, g) ==
    LET curr == curr_argument(token, g)
        eq   == find(curr, "=")
    IN  IF num_prefix_dashes(token) = 0 THEN "zero"
        ELSE IF num_prefix_dashes(token) = 1 /\ Len(curr) > 1 /\ eq > 1 THEN "cluster"
        ELSE "named"

\* Case 2 with the characters before '=' looked up before the error is raised
cluster_result_lookup_first(opts, token, g) ==
    LET curr == curr_argument(token, g)
        eq   == find(curr, "=")
    IN  IF eq # npos
        THEN LET r == cluster_loop(opts, substr(curr, 0, eq), 1)
             IN  IF r.err # "None" THEN r
                 ELSE [err |-> "AmbiguousClusterValue", opts |-> r.opts]
        ELSE cluster_loop(opts, curr, 1)

\* Case 2: the cluster branch.
cluster_result(opts, token, g) ==
    LET curr == curr_argument(token, g)
        eq   == find(curr, "=")
    IN  IF eq # npos
        THEN [err |-> "AmbiguousClusterValue", opts |-> opts]
        ELSE cluster_loop(opts, curr, 1)

\* option_name of Case 3
option_name_of(token, g) ==
    LET curr == curr_argument(token, g)
        eq   == find(curr, "=")
    IN  IF eq # npos THEN substr(curr, 0, eq) ELSE curr

\* option_value of Case 3: the text after '=', else the next argument, else ""
option_value_of(args, i, g) ==
    LET curr == curr_argument(args[i + 1], g)
        eq   == find(curr, "=")
    IN  IF eq # npos THEN substr_from(curr, eq + 1)
        ELSE IF i + 1 # Len(args) THEN args[i + 2] ELSE <<>>

\* Case 3 up to the extra increment: try_processing and its error.
named_result(opts, args, i, g) ==
    LET r == try_processing(opts, option_name_of(args[i + 1], g),
                            option_value_of(args, i, g), FALSE)
    IN  IF ~r.matched
        THEN [err |-> "UnrecognizedOption", opts |-> r.opts, regress |-> FALSE,
              consumed |-> FALSE]
        ELSE [err |-> r.err, opts |-> r.opts, regress |-> r.regress,
              consumed |-> r.consumed]

\* The condition of `if (equals_sign_index == npos && !option_value.empty())`
used_two_arguments(eq, value) == eq = npos /\ value # <<>>

(***************************************************************************)
(* History: the role in which an argument is consumed.                     *)
(***************************************************************************)
\* (the history keeps at most MaxRoles entries per argument)
AddRole(r, k, role) ==
    [r EXCEPT ![k] = IF Len(@) < MaxRoles THEN Append(@, role) ELSE @]

\* Arguments that the cursor has passed without any role were skipped.
MarkSkipped(r, head) ==
    [k \in DOMAIN r |-> IF k <= head /\ r[k] = <<>> THEN <<"skipped">> ELSE r[k]]

(***************************************************************************)
(* Initial states: the state when the constructor enters the loop.         *)
(***************************************************************************)
GarbageBytes == {"?", "q"}

InitOver(argseqs) ==
    /\ arguments \in argseqs
    /\ checked \in BOOLEAN
    /\ garbage \in [1..Len(arguments) -> GarbageBytes]
    /\ \A k \in 1..Len(arguments) :
          ~RemovePrefixOutOfRange(arguments[k]) => garbage[k] = "?"
    /\ it = 0
    /\ pc = "loop"
    /\ options = DefaultOptions
    /\ error = "None"
    /\ equals_sign_index = npos
    /\ option_value = <<>>
    /\ roles = [k \in 1..Len(arguments) |-> <<>>]

SeqsUpTo(S, n) == UNION {[1..m -> S] : m \in 0..n}

(***************************************************************************)
(* Actions.                                                                *)
(***************************************************************************)
Exit(kind, opts) ==
    /\ error' = kind
    /\ options' = opts
    /\ pc' = "exit"

AtToken == pc = "loop" /\ it # Len(arguments)

\* it == arguments.end(): the constructor returns.
Finish ==
    /\ pc = "loop"
    /\ it = Len(arguments)
    /\ pc' = "done"
    /\ UNCHANGED <<arguments, checked, garbage, it, options, error,
                   equals_sign_index, option_value, roles>>

\* remove_prefix out of range under a checked library.
RemovePrefixAbort ==
    /\ AtToken
    /\ checked
    /\ RemovePrefixOutOfRange(arguments[it + 1])
    /\ Exit("Abort", options)
    /\ UNCHANGED <<arguments, checked, garbage, it, equals_sign_index, option_value, roles>>

\* Case 1: no prefix dash.
ZeroDashes ==
    /\ AtToken
    /\ Shape(arguments[it + 1], garbage[it + 1]) = "zero"
    /\ Exit("MalformedToken", options)
    /\ UNCHANGED <<arguments, checked, garbage, it, equals_sign_index, option_value, roles>>

\* Case 2: one dash and several characters.
Cluster ==
    /\ AtToken
    /\ Shape(arguments[it + 1], garbage[it + 1]) = "cluster"
    /\ LET r == cluster_result(options, arguments[it + 1], garbage[it + 1])
       IN  /\ equals_sign_index' = find(curr_argument(arguments[it + 1], garbage[it + 1]), "=")
           /\ IF r.err # "None"
              THEN Exit(r.err, r.opts) /\ UNCHANGED roles
              ELSE /\ options' = r.opts
                   /\ pc' = "increment"
                   /\ roles' = AddRole(roles, it + 1, "cluster")
                   /\ UNCHANGED error
    /\ UNCHANGED <<arguments, checked, garbage, it, option_value>>

\* Case 3: a named option, up to the return of try_processing.
Named ==
    /\ AtToken
    /\ ~(checked /\ RemovePrefixOutOfRange(arguments[it + 1]))
    /\ Shape(arguments[it + 1], garbage[it + 1]) = "named"
    /\ LET eq    == find(curr_argument(arguments[it + 1], garbage[it + 1]), "=")
           value == option_value_of(arguments, it, garbage[it + 1])
           r     == named_result(options, arguments, it, garbage[it + 1])
       IN  /\ equals_sign_index' = eq
           /\ option_value' = value
           /\ IF r.err # "None"
              THEN Exit(r.err, r.opts) /\ UNCHANGED <<it, roles>>
              ELSE IF r.regress /\ it = 0 /\ checked
              THEN \* --it on arguments.begin() under checked iterators
                   Exit("Abort", r.opts) /\ UNCHANGED <<it, roles>>
              ELSE /\ options' = r.opts
                   /\ it' = IF r.regress THEN it - 1 ELSE it
                   /\ pc' = "advance"
                   /\ roles' = IF eq = npos /\ r.consumed
                               THEN AddRole(AddRole(roles, it + 1, "name"), it + 2, "value")
                               ELSE AddRole(roles, it + 1, "name")
                   /\ UNCHANGED error
    /\ UNCHANGED <<arguments, checked, garbage>>

\* `if (equals_sign_index == npos && !option_value.empty()) ++it;`
ExtraAdvance ==
    /\ pc = "advance"
    /\ it' = IF used_two_arguments(equals_sign_index, option_value) THEN it + 1 ELSE it
    /\ pc' = "increment"
    /\ UNCHANGED <<arguments, checked, garbage, options, error,
                   equals_sign_index, option_value, roles>>

\* the ++it of the for statement
LoopIncrement ==
    /\ pc = "increment"
    /\ it' = it + 1
    /\ pc' = "loop"
    /\ roles' = MarkSkipped(roles, it + 1)
    /\ UNCHANGED <<arguments, checked, garbage, options, error,
                   equals_sign_index, option_value>>

Next ==
    \/ Finish
    \/ RemovePrefixAbort
    \/ ZeroDashes
    \/ Cluster
    \/ Named
    \/ ExtraAdvance
    \/ LoopIncrement

(***************************************************************************)
(* Argument sequences the parser is started on.                            *)
(***************************************************************************)
\* Tokens that reach every branch of the loop body:
\*   -   -ql   a   --quiet   --partial
CoreTokens == { <<"-">>, <<"-", "q", "l">>, <<"a">>, <<"-", "-", "q", "u", "i", "e", "t">>,
                <<"-", "-", "p", "a", "r", "t", "i", "a", "l">> }

\* Boolean options bare and with attached values (-q -l -p --quiet=true -q=1
\* --quiet=false -q=0 --quiet=-x --quiet= --quiet=2), options that need a value
\* (--nthreads --nthreads=4 --nthreads= -n --imagefile --imagefile=a --imagefile=-x
\* --imagefile= --spp=), unknown and empty names (--something --something=5 -x -x=5
\* -- --=5 -=5), clusters (-qlp -qx -pqs -pqs=5) and tokens without a dash
\* (4 true 1 0 false 2 and the empty string).
Tokens ==
    CoreTokens \cup
    { <<"-", "q">>, <<"-", "l">>, <<"-", "p">>,
      <<"-", "-", "q", "u", "i", "e", "t", "=", "t", "r", "u", "e">>, <<"-", "q", "=", "1">>,
      <<"-", "-", "q", "u", "i", "e", "t", "=", "f", "a", "l", "s", "e">>,
          <<"-", "q", "=", "0">>, <<"-", "-", "q", "u", "i", "e", "t", "=", "-", "x">>,
          <<"-", "-", "q", "u", "i", "e", "t", "=">>,
          <<"-", "-", "q", "u", "i", "e", "t", "=", "2">>,
      <<"-", "-", "n", "t", "h", "r", "e", "a", "d", "s">>,
          <<"-", "-", "n", "t", "h", "r", "e", "a", "d", "s", "=", "4">>,
          <<"-", "-", "n", "t", "h", "r", "e", "a", "d", "s", "=">>, <<"-", "n">>,
      <<"-", "-", "i", "m", "a", "g", "e", "f", "i", "l", "e">>,
          <<"-", "-", "i", "m", "a", "g", "e", "f", "i", "l", "e", "=", "a">>,
          <<"-", "-", "i", "m", "a", "g", "e", "f", "i", "l", "e", "=", "-", "x">>,
          <<"-", "-", "i", "m", "a", "g", "e", "f", "i", "l", "e", "=">>,
      <<"-", "-", "s", "p", "p", "=">>,
      <<"-", "-", "s", "o", "m", "e", "t", "h", "i", "n", "g">>,
          <<"-", "-", "s", "o", "m", "e", "t", "h", "i", "n", "g", "=", "5">>, <<"-", "x">>,
          <<"-", "x", "=", "5">>, <<"-", "-">>, <<"-", "-", "=", "5">>, <<"-", "=", "5">>,
      <<"-", "q", "l", "p">>, <<"-", "q", "x">>, <<"-", "p", "q", "s">>,
          <<"-", "p", "q", "s", "=", "5">>,
      <<"4">>, <<"t", "r", "u", "e">>, <<"1">>, <<"0">>, <<"f", "a", "l", "s", "e">>, <<>>,
          <<"2">> }

Init == InitOver(SeqsUpTo(Tokens, MaxArgs))

Spec == Init /\ [][Next]_vars

\* Arguments around a boolean option with an attached value that begins with a dash.
LoopTokens == CoreTokens \cup { <<"-", "-", "q", "u", "i", "e", "t", "=", "-", "x">>,
    <<"-", "-", "n", "t", "h", "r", "e", "a", "d", "s">>, <<"4">> }

LoopInit == InitOver(SeqsUpTo(LoopTokens, MaxArgs))

\* The loop is sequential code: a step that can be taken is taken.
FairSpec == LoopInit /\ [][Next]_vars /\ WF_vars(Next)

\* Values for the Int options: strings of digits around INT_MAX:
\*   0  007  2147483647  2147483648  02147483647  2147483650  99999999999
DigitStrings ==
    { <<"0">>, <<"0", "0", "7">>, <<"2", "1", "4", "7", "4", "8", "3", "6", "4", "7">>,
      <<"2", "1", "4", "7", "4", "8", "3", "6", "4", "8">>,
      <<"0", "2", "1", "4", "7", "4", "8", "3", "6", "4", "7">>,
      <<"2", "1", "4", "7", "4", "8", "3", "6", "5", "0">>,
          <<"9", "9", "9", "9", "9", "9", "9", "9", "9", "9", "9">> }

IntOptionTokens == { <<"-", "-", "n", "t", "h", "r", "e", "a", "d", "s">>, <<"-", "n">>,
                     <<"-", "-", "s", "p", "p">>, <<"-", "-", "s", "e", "e", "d">>,
                     <<"-", "s">> }

IntTokens ==
    CoreTokens \cup IntOptionTokens \cup DigitStrings
    \cup {t \o <<"=">> \o d : t \in IntOptionTokens, d \in DigitStrings}

IntInit == InitOver(SeqsUpTo(IntTokens, MaxArgs))

SpecInt == IntInit /\ [][Next]_vars

\* Every boolean option name, bare and with each attached literal, and the
\* literals as separate arguments.
BoolOptionTokens ==
    { <<"-", "-", "q", "u", "i", "e", "t">>, <<"-", "q">>,
      <<"-", "-", "l", "o", "g", "u", "t", "i", "l">>, <<"-", "l">>,
      <<"-", "-", "p", "a", "r", "t", "i", "a", "l">>, <<"-", "p">> }

BoolLiterals == { <<"t", "r", "u", "e">>, <<"1">>, <<"f", "a", "l", "s", "e">>, <<"0">> }

BoolTokens ==
    CoreTokens \cup BoolOptionTokens \cup BoolLiterals
    \cup {t \o <<"=">> \o v : t \in BoolOptionTokens, v \in BoolLiterals}

BoolInit == InitOver(SeqsUpTo(BoolTokens, MaxArgs))

SpecBool == BoolInit /\ [][Next]_vars

\* Every name of the option table of the interface as `--name=value` with a value
\* of its type (4, a.ppm, a.txt, true), every non-boolean option bare and as
\* `name=`, and the empty string.
NameTokens ==
    CoreTokens \cup
    { <<"-", "-", "n", "t", "h", "r", "e", "a", "d", "s", "=", "4">>,
      <<"-", "-", "n", "=", "4">>, <<"-", "-", "s", "p", "p", "=", "4">>,
      <<"-", "-", "s", "e", "e", "d", "=", "4">>, <<"-", "-", "s", "=", "4">>,
      <<"-", "-", "i", "m", "a", "g", "e", "f", "i", "l", "e", "=", "a", ".", "p", "p", "m">>,
          <<"-", "-", "i", "m", "a", "g", "e", "_", "f", "i", "l", "e", "=", "a", ".", "p", "p", "m">>,
      <<"-", "-", "i", "n", "p", "u", "t", "=", "a", ".", "t", "x", "t">>,
          <<"-", "-", "i", "n", "p", "u", "t", "_", "f", "i", "l", "e", "=", "a", ".", "t", "x", "t">>,
      <<"-", "-", "q", "u", "i", "e", "t", "=", "t", "r", "u", "e">>,
          <<"-", "-", "q", "=", "t", "r", "u", "e">>,
          <<"-", "-", "l", "o", "g", "u", "t", "i", "l", "=", "t", "r", "u", "e">>,
          <<"-", "-", "l", "=", "t", "r", "u", "e">>,
      <<"-", "-", "p", "a", "r", "t", "i", "a", "l", "=", "t", "r", "u", "e">>,
          <<"-", "-", "p", "=", "t", "r", "u", "e">>,
      <<"-", "-", "n", "t", "h", "r", "e", "a", "d", "s">>, <<"-", "n">>,
          <<"-", "-", "s", "p", "p">>, <<"-", "-", "s", "e", "e", "d">>, <<"-", "s">>,
          <<"-", "-", "i", "m", "a", "g", "e", "f", "i", "l", "e">>,
          <<"-", "-", "i", "n", "p", "u", "t">>,
      <<"-", "-", "n", "t", "h", "r", "e", "a", "d", "s", "=">>, <<"-", "n", "=">>,
          <<"-", "-", "s", "p", "p", "=">>, <<"-", "-", "s", "e", "e", "d", "=">>,
          <<"-", "s", "=">>, <<"-", "-", "i", "m", "a", "g", "e", "f", "i", "l", "e", "=">>,
      <<"-", "-", "i", "n", "p", "u", "t", "=">>,
      <<>> }

NameInit == InitOver(SeqsUpTo(NameTokens, MaxArgs))

SpecNames == NameInit /\ [][Next]_vars

\* Single-dash tokens with several characters: with `=` (-pqs=5 -ab=1 -nthreads=4
\* -pq=1 -pq= -imagefile=out.ppm), without (-imagefile -qlp -pp -pqs -pqn -qx -pxs
\* -psq -nq -sx -xs -q-); beside them -l=false, --imagefile, --imagefile=out.ppm
\* and the value out.ppm as a separate argument.
ClusterTokens ==
    CoreTokens \cup
    { <<"-", "p", "q", "s", "=", "5">>, <<"-", "a", "b", "=", "1">>,
      <<"-", "n", "t", "h", "r", "e", "a", "d", "s", "=", "4">>, <<"-", "p", "q", "=", "1">>,
      <<"-", "p", "q", "=">>,
      <<"-", "i", "m", "a", "g", "e", "f", "i", "l", "e", "=", "o", "u", "t", ".", "p", "p", "m">>,
          <<"-", "i", "m", "a", "g", "e", "f", "i", "l", "e">>,
          <<"o", "u", "t", ".", "p", "p", "m">>,
      <<"-", "-", "i", "m", "a", "g", "e", "f", "i", "l", "e", "=", "o", "u", "t", ".", "p", "p", "m">>,
          <<"-", "-", "i", "m", "a", "g", "e", "f", "i", "l", "e">>,
      <<"-", "q", "l", "p">>, <<"-", "p", "q", "s">>, <<"-", "p", "q", "n">>, <<"-", "q", "x">>,
          <<"-", "p", "x", "s">>, <<"-", "p", "s", "q">>, <<"-", "n", "q">>, <<"-", "s", "x">>,
      <<"-", "x", "s">>, <<"-", "q", "-">>, <<"-", "p", "p">>,
          <<"-", "l", "=", "f", "a", "l", "s", "e">> }

ClusterInit == InitOver(SeqsUpTo(ClusterTokens, MaxArgs))

SpecCluster == ClusterInit /\ [][Next]_vars

\* Values for the Int options with a character that is no digit:
\*   Hello  -5  12a  x7  99999999999x  2147483648x
NonDigitStrings ==
    { <<"H", "e", "l", "l", "o">>, <<"-", "5">>, <<"1", "2", "a">>, <<"x", "7">>,
      <<"9", "9", "9", "9", "9", "9", "9", "9", "9", "9", "9", "x">>,
      <<"2", "1", "4", "7", "4", "8", "3", "6", "4", "8", "x">> }

IntTextTokens ==
    CoreTokens \cup IntOptionTokens \cup NonDigitStrings
    \cup {t \o <<"=">> \o v : t \in IntOptionTokens, v \in NonDigitStrings}

IntTextInit == InitOver(SeqsUpTo(IntTextTokens, MaxArgs))

SpecIntText == IntTextInit /\ [][Next]_vars

(***************************************************************************)
(* The whole parse as a function of the arguments, by the same steps.      *)
(***************************************************************************)
\* One iteration at index i: the error raised, the fields, and the value of
\* `it` after the for statement's increment.
iteration(opts, args, i, chk, g) ==
    LET token == args[i + 1]
        shape == Shape(token, g[i + 1])
    IN  IF chk /\ RemovePrefixOutOfRange(token)
        THEN [err |-> "Abort", opts |-> opts, next |-> i]
        ELSE IF shape = "zero"
        THEN [err |-> "MalformedToken", opts |-> opts, next |-> i]
        ELSE IF shape = "cluster"
        THEN LET r == cluster_result(opts, token, g[i + 1])
             IN  [err |-> r.err, opts |-> r.opts, next |-> i + 1]
        ELSE LET eq    == find(curr_argument(token, g[i + 1]), "=")
                 value == option_value_of(args, i, g[i + 1])
                 r     == named_result(opts, args, i, g[i + 1])
             IN  IF r.err = "None" /\ r.regress /\ i = 0 /\ chk
                 THEN [err |-> "Abort", opts |-> r.opts, next |-> i]
                 ELSE [err |-> r.err, opts |-> r.opts,
                       next |-> (IF r.regress THEN i - 1 ELSE i)
                                + (IF used_two_arguments(eq, value) THEN 1 ELSE 0) + 1]

\* The loop from index i with at most `fuel` iterations left.  A parse that
\* ends takes at most Len(args) iterations, each one moving the cursor forward.
RECURSIVE run_from(_, _, _, _, _, _)
run_from(opts, args, i, chk, g, fuel) ==
    IF i = Len(args) THEN [status |-> "done", err |-> "None", opts |-> opts]
    ELSE IF fuel = 0 THEN [status |-> "diverges", err |-> "None", opts |-> opts]
    ELSE LET r == iteration(opts, args, i, chk, g)
         IN  IF r.err # "None" THEN [status |-> "exit", err |-> r.err, opts |-> r.opts]
             ELSE run_from(r.opts, args, r.next, chk, g, fuel - 1)

Run(args, chk, g) == run_from(DefaultOptions, args, 0, chk, g, Len(args) + 1)

(***************************************************************************)
(* Vocabulary of the properties.                                           *)
(***************************************************************************)
\* The outcome of the parse in a final state.
Final == pc \in {"done", "exit"}

Outcome == [status |-> pc, err |-> error, opts |-> options]

\* Both succeed with the same eight fields, or both fail with the same error.
SameOutcome(a, b) ==
    \/ a.status = "done" /\ b.status = "done" /\ a.opts = b.opts
    \/ a.status = "exit" /\ b.status = "exit" /\ a.err = b.err

RegisteredNames == {Registry[k].name : k \in 1..Len(Registry)}

\* The token `--name`
Long(name) == <<"-", "-">> \o name

\* The token `--name=value`
Attached(token, value) == token \o <<"=">> \o value

NoGarbage(args) == [k \in 1..Len(args) |-> "?"]

(***************************************************************************)
(* C1: for every registered option and every value string, the single      *)
(* token `--name=value` and the two tokens `--name` `value` give the same  *)
(* outcome: both succeed with the same eight fields, or both fail with the *)
(* same error kind.                                                        *)
(***************************************************************************)
C1_AttachedSameAsSeparate ==
    (/\ Final
     /\ Len(arguments) = 2
     /\ \E name \in RegisteredNames : arguments[1] = Long(name))
    => SameOutcome(Outcome,
                   Run(<<Attached(arguments[1], arguments[2])>>, checked, <<"?">>))

(***************************************************************************)
(* C2: for every finite token sequence the parse loop eventually stops, at *)
(* the end of the sequence or at the first error.                          *)
(***************************************************************************)
C2_ParseTerminates == <>Final

(***************************************************************************)
(* C3: in every parse that completes successfully, each argument is        *)
(* consumed exactly once and in exactly one role (option name, separate    *)
(* value of the option before it, or boolean cluster); none is skipped.    *)
(***************************************************************************)
C3_EachTokenConsumedOnce ==
    pc = "done" =>
        \A k \in 1..Len(arguments) :
            /\ Len(roles[k]) = 1
            /\ roles[k][1] \in {"name", "value", "cluster"}

\* A successful parse with a regression, a separate value and a cluster is reached
\* (at MaxArgs = 2: a boolean option followed by an option, then the end).
C3_Witness ==
    /\ pc = "done"
    /\ Len(arguments) = 2
    /\ arguments[1] = <<"-", "-", "q", "u", "i", "e", "t">>
    /\ arguments[2] \in { <<"-", "q", "l">>, <<"-", "-", "p", "a", "r", "t", "i", "a", "l">> }

(***************************************************************************)
(* C4: a non-empty string of digits given to an Int option (attached or as *)
(* the next argument) is accepted iff its decimal value is at most         *)
(* 2147483647; the stored value is then that decimal value (leading zeros  *)
(* allowed); otherwise the parse fails with IntegerOverflow.               *)
(***************************************************************************)
\* The Int options of the claim: name and field.
C4_IntOptions ==
    { [name |-> <<"n", "t", "h", "r", "e", "a", "d", "s">>, field |-> "nthreads"],
      [name |-> <<"n">>,        field |-> "nthreads"],
      [name |-> <<"s", "p", "p">>,      field |-> "spp"],
      [name |-> <<"s", "e", "e", "d">>,     field |-> "seed"],
      [name |-> <<"s">>,        field |-> "seed"] }

\* `--name`, and `-name` for a one-character name
Forms(name) == {Long(name)} \cup (IF Len(name) = 1 THEN {<<"-">> \o name} ELSE {})

\* A string of digits without its leading zeros ("" for zero).
RECURSIVE StripZeros(_)
StripZeros(d) == IF d # <<>> /\ d[1] = "0" THEN StripZeros(Tail(d)) ELSE d

\* The decimal digits of a natural number ("" for zero).
RECURSIVE ToDigits(_)
ToDigits(n) == IF n = 0 THEN <<>> ELSE Append(ToDigits(n \div 10), Digits[(n % 10) + 1])

\* a <= b as decimal numbers, for digit strings without leading zeros
DecLeq(a, b) ==
    \/ Len(a) < Len(b)
    \/ /\ Len(a) = Len(b)
       /\ \/ a = b
          \/ \E k \in 1..Len(a) :
                /\ \A j \in 1..(k - 1) : a[j] = b[j]
                /\ DigitValue(a[k]) < DigitValue(b[k])

\* The iteration starts on the option `form` with the value v, attached or separate.
StartsOn(form, v) ==
    /\ AtToken
    /\ \/ arguments[it + 1] = Attached(form, v)
       \/ /\ arguments[it + 1] = form
          /\ it + 1 < Len(arguments)
          /\ arguments[it + 2] = v

C4_IntegerCoercionExact ==
    [][\A o \in C4_IntOptions : \A form \in Forms(o.name) : \A d \in DigitStrings :
          StartsOn(form, d) =>
              IF DecLeq(StripZeros(d), <<"2", "1", "4", "7", "4", "8", "3", "6", "4", "7">>)
              THEN /\ pc' = "advance"
                   /\ error' = "None"
                   /\ options'[o.field] <= INT_MAX
                   /\ ToDigits(options'[o.field]) = StripZeros(d)
              ELSE /\ pc' = "exit"
                   /\ error' = "IntegerOverflow"]_vars

\* `-n=2147483647` has been accepted after another option had set nthreads.
C4_Witness ==
    /\ pc = "advance"
    /\ it = 1
    /\ arguments[2] = <<"-", "n", "=", "2", "1", "4", "7", "4", "8", "3", "6", "4", "7">>
    /\ arguments[1] = <<"-", "-", "n", "t", "h", "r", "e", "a", "d", "s", "=", "0", "0", "7">>
    /\ options.nthreads = INT_MAX

(***************************************************************************)
(* C5: a cluster token `-c1..ck` (k >= 2) of boolean aliases from q, l, p  *)
(* gives the same outcome as the k tokens `-c1` .. `-ck` in its place,     *)
(* when the cluster is last or is followed by another option token.        *)
(***************************************************************************)
IsBoolCluster(token) ==
    /\ Len(token) >= 3
    /\ token[1] = "-"
    /\ \A k \in 2..Len(token) : token[k] \in {"q", "l", "p"}

\* The arguments with the cluster at position p written as separate tokens.
Separated(args, p) ==
    SubSeq(args, 1, p - 1)
    \o [k \in 1..(Len(args[p]) - 1) |-> <<"-", args[p][k + 1]>>]
    \o SubSeq(args, p + 1, Len(args))

SeparatedGarbage(g, args, p) ==
    SubSeq(g, 1, p - 1)
    \o [k \in 1..(Len(args[p]) - 1) |-> "?"]
    \o SubSeq(g, p + 1, Len(g))

BeginsWithDash(token) == token # <<>> /\ token[1] = "-"

C5_ClusterSameAsSeparate ==
    Final =>
        \A p \in 1..Len(arguments) :
            (/\ IsBoolCluster(arguments[p])
             /\ roles[p] # <<"value">>     \* not the value of the option before it
             /\ p = Len(arguments) \/ BeginsWithDash(arguments[p + 1]))
            => SameOutcome(Outcome,
                           Run(Separated(arguments, p), checked,
                               SeparatedGarbage(garbage, arguments, p)))

(***************************************************************************)
(* C6: for every boolean option and each of its names, the bare form,      *)
(* `=true` and `=1` set the option to true, `=false` and `=0` set it to    *)
(* false; the same literals as a separate following token have the same    *)
(* effect, and that token is consumed as the value.                        *)
(***************************************************************************)
C6_BoolOptions ==
    { [name |-> <<"q", "u", "i", "e", "t">>,   field |-> "quiet"],
      [name |-> <<"q">>,       field |-> "quiet"],
      [name |-> <<"l", "o", "g", "u", "t", "i", "l">>, field |-> "log_util"],
      [name |-> <<"l">>,       field |-> "log_util"],
      [name |-> <<"p", "a", "r", "t", "i", "a", "l">>, field |-> "partial"],
      [name |-> <<"p">>,       field |-> "partial"] }

C6_Literals ==
    { [text |-> <<"t", "r", "u", "e">>,  value |-> TRUE],  [text |-> <<"1">>, value |-> TRUE],
      [text |-> <<"f", "a", "l", "s", "e">>, value |-> FALSE], [text |-> <<"0">>,
          value |-> FALSE] }

\* The iteration starts on the bare option `form`, not followed by a value.
StartsOnBare(form) ==
    /\ AtToken
    /\ arguments[it + 1] = form
    /\ it + 1 = Len(arguments) \/ BeginsWithDash(arguments[it + 2])

\* try_processing has returned for `form` followed by the separate token v.
ReturnedWithSeparate(form, v) ==
    /\ pc = "advance"
    /\ it >= 0
    /\ it + 1 < Len(arguments)
    /\ arguments[it + 1] = form
    /\ arguments[it + 2] = v

C6_BooleanLiterals ==
    [][\A o \in C6_BoolOptions : \A form \in Forms(o.name) :
          /\ \A lit \in C6_Literals :
                /\ StartsOn(form, lit.text) =>
                       /\ pc' = "advance"
                       /\ error' = "None"
                       /\ options'[o.field] = lit.value
                /\ ReturnedWithSeparate(form, lit.text) =>
                       /\ it' = it + 1
                       /\ roles[it + 2] = <<"value">>
          /\ StartsOnBare(form) => options'[o.field] = TRUE
          /\ StartsOnBare(form) /\ it + 1 = Len(arguments) =>
                 pc' = "advance" /\ error' = "None"]_vars

\* `--quiet` `1` has been parsed to the end, the literal consumed as the value.
C6_Witness ==
    /\ pc = "done"
    /\ arguments = << <<"-", "-", "q", "u", "i", "e", "t">>, <<"1">> >>
    /\ options.quiet = TRUE
    /\ roles[2] = <<"value">>

(***************************************************************************)
(* C7 (as stated): every name of the option table of the interface,        *)
(* nthreads, n, spp, seed, s, imagefile, image_file, input, input_file,    *)
(* quiet, q, logutil, l, partial, p, is recognized: `--<name>=<value>`     *)
(* with a valid value succeeds and sets the option of its table row.       *)
(***************************************************************************)
C7_Table ==
    { [name |-> <<"n", "t", "h", "r", "e", "a", "d", "s">>,   field |-> "nthreads",   text |-> <<"4">>,     value |-> 4],
      [name |-> <<"n">>,          field |-> "nthreads",   text |-> <<"4">>,     value |-> 4],
      [name |-> <<"s", "p", "p">>,        field |-> "spp",        text |-> <<"4">>,     value |-> 4],
      [name |-> <<"s", "e", "e", "d">>,       field |-> "seed",       text |-> <<"4">>,     value |-> 4],
      [name |-> <<"s">>,          field |-> "seed",       text |-> <<"4">>,     value |-> 4],
      [name |-> <<"i", "m", "a", "g", "e", "f", "i", "l", "e">>,  field |-> "image_file",
          text |-> <<"a", ".", "p", "p", "m">>, value |-> <<"a", ".", "p", "p", "m">>],
      [name |-> <<"i", "m", "a", "g", "e", "_", "f", "i", "l", "e">>, field |-> "image_file",
          text |-> <<"a", ".", "p", "p", "m">>, value |-> <<"a", ".", "p", "p", "m">>],
      [name |-> <<"i", "n", "p", "u", "t">>,      field |-> "input_file",
          text |-> <<"a", ".", "t", "x", "t">>, value |-> <<"a", ".", "t", "x", "t">>],
      [name |-> <<"i", "n", "p", "u", "t", "_", "f", "i", "l", "e">>, field |-> "input_file",
          text |-> <<"a", ".", "t", "x", "t">>, value |-> <<"a", ".", "t", "x", "t">>],
      [name |-> <<"q", "u", "i", "e", "t">>,      field |-> "quiet",      text |-> <<"t", "r", "u", "e">>,  value |-> TRUE],
      [name |-> <<"q">>,          field |-> "quiet",      text |-> <<"t", "r", "u", "e">>,  value |-> TRUE],
      [name |-> <<"l", "o", "g", "u", "t", "i", "l">>,    field |-> "log_util",   text |-> <<"t", "r", "u", "e">>,  value |-> TRUE],
      [name |-> <<"l">>,          field |-> "log_util",   text |-> <<"t", "r", "u", "e">>,  value |-> TRUE],
      [name |-> <<"p", "a", "r", "t", "i", "a", "l">>,    field |-> "partial",    text |-> <<"t", "r", "u", "e">>,  value |-> TRUE],
      [name |-> <<"p">>,          field |-> "partial",    text |-> <<"t", "r", "u", "e">>,  value |-> TRUE] }

\* The iteration on `--name=text` of a table row succeeds and sets the row's field.
RowAccepted(row) ==
    (AtToken /\ arguments[it + 1] = Attached(Long(row.name), row.text))
    => /\ pc' = "advance"
       /\ error' = "None"
       /\ options'[row.field] = row.value

\* The iteration on `--name=text` fails with UnrecognizedOption, no field changed.
RowUnrecognized(row) ==
    (AtToken /\ arguments[it + 1] = Attached(Long(row.name), row.text))
    => /\ pc' = "exit"
       /\ error' = "UnrecognizedOption"
       /\ options' = options

C7_EveryTableNameRecognized == [][\A row \in C7_Table : RowAccepted(row)]_vars

(***************************************************************************)
(* C7 (amended): the thirteen names nthreads, n, spp, seed, s, imagefile,  *)
(* input, quiet, q, logutil, l, partial, p are recognized and set the      *)
(* option of their table row; image_file and input_file are names of       *)
(* fields, not of options: `--image_file=a.ppm` and `--input_file=a.txt`   *)
(* fail with UnrecognizedOption.                                           *)
(***************************************************************************)
C7_FieldNames == { <<"i", "m", "a", "g", "e", "_", "f", "i", "l", "e">>,
                   <<"i", "n", "p", "u", "t", "_", "f", "i", "l", "e">> }

C7_RegisteredNamesRecognized ==
    [][\A row \in C7_Table :
          IF row.name \in C7_FieldNames THEN RowUnrecognized(row) ELSE RowAccepted(row)]_vars

\* `--input=a.txt` has set input_file (and left image_file alone).
C7_Witness ==
    /\ pc = "advance"
    /\ arguments[it + 1] = <<"-", "-", "i", "n", "p", "u", "t", "=", "a", ".", "t", "x", "t">>
    /\ options.input_file = <<"a", ".", "t", "x", "t">>
    /\ options.image_file = DefaultOptions.image_file

(***************************************************************************)
(* C8: every token with zero leading dashes that the cursor reaches at the *)
(* start of an iteration fails the parse with MalformedToken, the empty    *)
(* string included.                                                        *)
(***************************************************************************)
ZeroLeadingDashes(token) == token = <<>> \/ token[1] # "-"

C8_ZeroDashesMalformed ==
    [][(AtToken /\ ZeroLeadingDashes(arguments[it + 1]))
       => (pc' = "exit" /\ error' = "MalformedToken")]_vars

(***************************************************************************)
(* C9: a token of the named-option shape (two or more leading dashes, or   *)
(* one dash and one character, optionally followed by `=value`; the name   *)
(* may be empty) whose name is not registered fails with                   *)
(* UnrecognizedOption before any field is changed; a character of a        *)
(* boolean cluster that matches no name fails with UnrecognizedOption.     *)
(***************************************************************************)
RECURSIVE LeadingDashes(_)
LeadingDashes(token) ==
    IF token # <<>> /\ token[1] = "-" THEN 1 + LeadingDashes(Tail(token)) ELSE 0

Body(token) == SubSeq(token, LeadingDashes(token) + 1, Len(token))

RECURSIVE BeforeEquals(_)
BeforeEquals(s) ==
    IF s = <<>> \/ s[1] = "=" THEN <<>> ELSE <<s[1]>> \o BeforeEquals(Tail(s))

HasEquals(s) == \E k \in 1..Len(s) : s[k] = "="

NamedShape(token) ==
    \/ LeadingDashes(token) >= 2
    \/ /\ LeadingDashes(token) = 1
       /\ \/ Len(BeforeEquals(Body(token))) = 1
          \/ BeforeEquals(Body(token)) = <<>> /\ HasEquals(Body(token))

\* A cluster whose first character that is no boolean alias is no option name.
ClusterWithUnknown(token) ==
    /\ LeadingDashes(token) = 1
    /\ Len(Body(token)) >= 2
    /\ ~HasEquals(Body(token))
    /\ \E k \in 1..Len(Body(token)) :
          /\ \A j \in 1..(k - 1) : Body(token)[j] \in {"q", "l", "p"}
          /\ <<Body(token)[k]>> \notin RegisteredNames

C9_UnknownNameUnrecognized ==
    [][/\ (/\ AtToken
           /\ NamedShape(arguments[it + 1])
           /\ BeforeEquals(Body(arguments[it + 1])) \notin RegisteredNames)
          => (pc' = "exit" /\ error' = "UnrecognizedOption" /\ options' = options)
       /\ (AtToken /\ ClusterWithUnknown(arguments[it + 1]))
          => (pc' = "exit" /\ error' = "UnrecognizedOption")]_vars

(***************************************************************************)
(* C10: for every non-boolean option, the bare name as the last token, the *)
(* name with an empty attached value, and the name followed by an empty    *)
(* token fail with MissingValue, and no field is modified before that.     *)
(***************************************************************************)
C10_NonBoolNames ==
    { <<"n", "t", "h", "r", "e", "a", "d", "s">>, <<"n">>, <<"s", "p", "p">>,
      <<"s", "e", "e", "d">>, <<"s">>, <<"i", "m", "a", "g", "e", "f", "i", "l", "e">>,
      <<"i", "n", "p", "u", "t">> }

StartsOnWithoutValue(form) ==
    /\ AtToken
    /\ \/ arguments[it + 1] = Attached(form, <<>>)
       \/ /\ arguments[it + 1] = form
          /\ it + 1 = Len(arguments) \/ arguments[it + 2] = <<>>

C10_MissingValue ==
    [][\A name \in C10_NonBoolNames : \A form \in Forms(name) :
          StartsOnWithoutValue(form) =>
              /\ pc' = "exit"
              /\ error' = "MissingValue"
              /\ options' = options]_vars

\* `--nthreads` as the last token has failed after `--nthreads=4` had set the field.
C10_Witness ==
    /\ pc = "exit"
    /\ error = "MissingValue"
    /\ arguments = << <<"-", "-", "n", "t", "h", "r", "e", "a", "d", "s", "=", "4">>,
        <<"-", "-", "n", "t", "h", "r", "e", "a", "d", "s">> >>
    /\ options.nthreads = 4

(***************************************************************************)
(* C11: every token with exactly one leading dash, more than one character *)
(* before its first `=`, and an `=` present fails with                     *)
(* AmbiguousClusterValue before any of its characters is looked up: no     *)
(* field is modified by that token.                                        *)
(***************************************************************************)
SingleDashValued(token) ==
    /\ LeadingDashes(token) = 1
    /\ HasEquals(Body(token))
    /\ Len(BeforeEquals(Body(token))) > 1

C12_SingleDashLongName ==
    (/\ Final
     /\ \/ arguments = << <<"-", "i", "m", "a", "g", "e", "f", "i", "l", "e", "=", "o", "u", "t", ".", "p", "p", "m">> >>
        \/ arguments = << <<"-", "i", "m", "a", "g", "e", "f", "i", "l", "e">>,
            <<"o", "u", "t", ".", "p", "p", "m">> >>)
    => /\ pc = "done"
       /\ options.image_file = <<"o", "u", "t", ".", "p", "p", "m">>

(***************************************************************************)
(* C13: in a boolean cluster token (one dash, two or more characters, no   *)
(* `=`) the first character, from the left, that is not a boolean alias    *)
(* decides the error: InvalidClusterMember if it names a non-boolean       *)
(* option (n or s), never MissingValue; UnrecognizedOption if it names no  *)
(* option.                                                                 *)
(***************************************************************************)
ClusterShape(token) ==
    /\ LeadingDashes(token) = 1
    /\ Len(Body(token)) >= 2
    /\ ~HasEquals(Body(token))

\* k is the position of the first character of s that is not a boolean alias
FirstNonAlias(s, k) ==
    /\ k \in 1..Len(s)
    /\ s[k] \notin {"q", "l", "p"}
    /\ \A j \in 1..(k - 1) : s[j] \in {"q", "l", "p"}

C14_NoArgumentsGivesDefaults ==
    (arguments = <<>> /\ pc # "loop")
    => /\ pc = "done"
       /\ error = "None"
       /\ options = [nthreads |-> 0, spp |-> 0, seed |-> 0,
                     image_file |-> <<"i", "m", "a", "g", "e", ".", "p", "p", "m">>,
                         input_file |-> <<"s", "c", "e", "n", "e", ".", "t", "x", "t">>,
                     quiet |-> FALSE, log_util |-> FALSE, partial |-> FALSE]

\* The parse of no arguments has returned.
C14_Witness == arguments = <<>> /\ pc = "done"

(***************************************************************************)
(* C15: when a boolean option is given without `=` and the next token      *)
(* begins with `-` (so is none of 1, true, 0, false), the option is set to *)
(* true, the net cursor movement of the iteration is exactly one token,    *)
(* and the next token is not consumed as a value: it is processed by the   *)
(* following iteration.  The regression is requested only in this shape.   *)
(***************************************************************************)
\* The cursor after the iteration, seen when try_processing has returned.
CursorAfterIteration ==
    it' + (IF used_two_arguments(equals_sign_index', option_value') THEN 1 ELSE 0) + 1

\* The iteration on a bare boolean option followed by a dash-prefixed token
\* sets the option and moves the cursor to that token.
C15_BareBoolBeforeOption ==
    \A o \in C6_BoolOptions : \A form \in Forms(o.name) :
        (/\ AtToken
         /\ arguments[it + 1] = form
         /\ it + 1 < Len(arguments)
         /\ BeginsWithDash(arguments[it + 2]))
        => /\ pc' = "advance"
           /\ error' = "None"
           /\ options'[o.field] = TRUE
           /\ CursorAfterIteration = it + 1
           /\ roles'[it + 2] = <<>>

\* A step of try_processing that runs `--it` starts on a token without `=`
\* that is followed by a dash-prefixed token.
C15_RegressionOnlyForSeparate ==
    (pc = "loop" /\ pc' = "advance" /\ it' = it - 1)
    => /\ equals_sign_index' = npos
       /\ it + 1 < Len(arguments)
       /\ BeginsWithDash(arguments[it + 2])

C15_LookAheadRegression ==
    [][C15_BareBoolBeforeOption /\ C15_RegressionOnlyForSeparate]_vars

(***************************************************************************)
(* C16: for every Int option, every non-empty value that contains at least *)
(* one character outside 0..9 (Hello, -5, 12a, 99999999999x) makes the     *)
(* parse fail with TypeMismatch, whatever its other characters are.        *)
(***************************************************************************)
C16_NonDigitTypeMismatch ==
    [][\A o \in C4_IntOptions : \A form \in Forms(o.name) : \A v \in NonDigitStrings :
          StartsOn(form, v) => (pc' = "exit" /\ error' = "TypeMismatch")]_vars

(***************************************************************************)
(* C17: in every reachable state of the parse the cursor `it` is an index  *)
(* in 0..N of the N arguments; the regression of the boolean coercion      *)
(* never moves it before the first argument.                               *)
(***************************************************************************)
C17_CursorInBounds == it \in 0..Len(arguments)

=============================================================================
